---- MODULE Spec2Model ----
(***************************************************************************)
(* The Ghana small-scale mining dashboard (src/app.py): the datasets and   *)
(* the satellite bounds loaded when the module is imported, the map()      *)
(* render function that builds one folium map document per request, and    *)
(* the legend script that runs in the served page.                         *)
(*                                                                         *)
(* Attribute values are tagged: Str(s) a Python str, Whole(i) a Python int,*)
(* Num(k) the float k/8 (every such float is exact in binary, so Python's  *)
(* formatting of it is decided by exact decimal arithmetic), None, and NaN *)
(* (pandas' missing number).  A row is a function from column names to     *)
(* values; a column the file does not have is a name outside its DOMAIN.   *)
(***************************************************************************)
EXTENDS Integers, Sequences, FiniteSets, TLC

VARIABLES
    gdf_licenses,        \* app.py:87   rows of the license dataset
    gdf_regions,         \* app.py:88
    gdf_districts,       \* app.py:89
    gdf_detections,      \* app.py:90
    gdf_district_ratios, \* app.py:91
    satellite_bounds,    \* app.py:102  the converted entries, in dict order
    satellite_bounds_file, \* app.py:49  content of SATELLITE_BOUNDS_FILE, or Absent
    bounds,              \* app.py:128  <<minx, miny, maxx, maxy>> of the licenses
    center_lat,          \* app.py:129
    center_lon,          \* app.py:130
    files,               \* the paths that exist under SATELLITE_PNG_DIR
    pc,                  \* where the current map() call stands
    m,                   \* app.py:159  the folium.Map being built
    sat_i,               \* app.py:189  index of the next satellite entry
    satellite_grp,       \* app.py:184  children of the satellite FeatureGroup
    images_added,        \* app.py:186
    sat_log,             \* what the satellite loop printed, one entry per iteration
    checked,             \* page: label -> state of each overlay checkbox
    legend_display,      \* page: style.display of #mining-legend
    listening            \* page: the change listeners are attached

dataVars == <<gdf_licenses, gdf_regions, gdf_districts, gdf_detections,
              gdf_district_ratios, satellite_bounds, satellite_bounds_file,
              bounds, center_lat, center_lon, files>>
buildVars == <<pc, m, sat_i, satellite_grp, images_added, sat_log>>
satVars == <<sat_i, satellite_grp, images_added, sat_log>>
pageVars == <<checked, legend_display, listening>>
vars == <<dataVars, buildVars, pageVars>>

\* ------------------------------------------------------------ bounds
MaxRows == 2
MaxRatioRows == 1
MaxDet == 3
NDates == 3
MaxImages == 2
MaxEighths == 5

\* ------------------------------------------------------------ values
Str(s) == [t |-> "str", s |-> s]
Whole(i) == [t |-> "int", i |-> i]
Num(k) == [t |-> "num", n |-> k]
None == [t |-> "none"]
NaN == [t |-> "nan"]

Min(a, b) == IF a < b THEN a ELSE b
Abs(a) == IF a < 0 THEN 0 - a ELSE a

\* s[:n]
Take(s, n) == SubSeq(s, 1, Min(n, Len(s)))
\* s[n:]
Drop(s, n) == IF n >= Len(s) THEN "" ELSE SubSeq(s, n + 1, Len(s))

Pad2(n) == IF n < 10 THEN "0" \o ToString(n) ELSE ToString(n)

\* repr of the float k/8: the integer part, a point, and the fraction's
\* digits without trailing zeros (at least one digit).
FloatRepr(k) ==
    LET a == Abs(k)
        f == (a % 8) * 125
        frac == IF f = 0 THEN "0"
                ELSE IF f % 100 = 0 THEN ToString(f \div 100)
                ELSE IF f % 10 = 0 THEN Pad2(f \div 10)
                ELSE (IF f < 100 THEN "0" ELSE "") \o ToString(f)
    IN (IF k < 0 THEN "-" ELSE "") \o ToString(a \div 8) \o "." \o frac

\* format(k/8, ".2f"): the exact value rounded to hundredths, ties to even.
Fixed2Eighths(k) ==
    LET a == Abs(k)
        q == (100 * a) \div 8
        r == (100 * a) % 8
        h == IF r > 4 \/ (r = 4 /\ q % 2 = 1) THEN q + 1 ELSE q
    IN (IF k < 0 THEN "-" ELSE "") \o ToString(h \div 100) \o "." \o Pad2(h % 100)

\* format(v, ".2f"): None and str have no 'f' format and raise.
CanFixed2(v) == v.t \in {"num", "int", "nan"}
Fixed2(v) ==
    CASE v.t = "num" -> Fixed2Eighths(v.n)
      [] v.t = "int" -> ToString(v.i) \o ".00"
      [] v.t = "nan" -> "nan"

\* str(v), which is what an f-string field without a format does.
PyStr(v) ==
    CASE v.t = "str" -> v.s
      [] v.t = "int" -> ToString(v.i)
      [] v.t = "num" -> FloatRepr(v.n)
      [] v.t = "none" -> "None"
      [] v.t = "nan" -> "nan"

\* pd.notna(v)
NotNa(v) == v.t \notin {"none", "nan"}
\* bool(v): None, 0, 0.0 and "" are false; nan is true.
Truthy(v) ==
    CASE v.t = "str" -> v.s # ""
      [] v.t = "int" -> v.i # 0
      [] v.t = "num" -> v.n # 0
      [] v.t = "none" -> FALSE
      [] v.t = "nan" -> TRUE

\* row.get(key, default) / props.get(key, default)
Get(row, key, default) == IF key \in DOMAIN row THEN row[key] ELSE default
\* row[key] raises KeyError unless every key is a column
Has(row, keys) == keys \subseteq DOMAIN row

\* A geometry with its bounding box <<minx, miny, maxx, maxy>>, the edges in
\* eighths of a degree.  Every edge is a whole number of quarter degrees (an
\* even count), so the midpoint of two edges is a whole number of eighths.
Box(minx, miny, maxx, maxy) == [t |-> "geom", bbox |-> <<minx, miny, maxx, maxy>>]
Polygon == Box(-16, 48, -12, 52)
\* row.geometry.__geo_interface__ raises AttributeError on a null geometry
HasGeometry(row) == row["geometry"].t = "geom"

\* ------------------------------------------------------------ dates
Digit(c) ==
    CASE c = "0" -> 0 [] c = "1" -> 1 [] c = "2" -> 2 [] c = "3" -> 3
      [] c = "4" -> 4 [] c = "5" -> 5 [] c = "6" -> 6 [] c = "7" -> 7
      [] c = "8" -> 8 [] c = "9" -> 9

RECURSIVE ParseInt(_)
ParseInt(s) ==
    IF s = "" THEN 0
    ELSE 10 * ParseInt(SubSeq(s, 1, Len(s) - 1)) + Digit(SubSeq(s, Len(s), Len(s)))

IsLeap(y) == (y % 4 = 0 /\ y % 100 # 0) \/ y % 400 = 0
DaysInMonth(y, mo) ==
    IF mo = 2 THEN (IF IsLeap(y) THEN 29 ELSE 28)
    ELSE IF mo \in {4, 6, 9, 11} THEN 30 ELSE 31

RECURSIVE DaysBeforeMonth(_, _)
DaysBeforeMonth(y, mo) ==
    IF mo = 1 THEN 0 ELSE DaysBeforeMonth(y, mo - 1) + DaysInMonth(y, mo - 1)

\* Days from 0001-01-01 to the first day of year y.
DaysBeforeYear(y) ==
    LET p == y - 1 IN 365 * p + p \div 4 - p \div 100 + p \div 400

\* pd.to_datetime(s, format='%Y%m%d') as a day number; a missing value is NaT.
NaT == -1
ToDatetime(v) ==
    IF ~NotNa(v) THEN NaT
    ELSE LET y == ParseInt(SubSeq(v.s, 1, 4))
             mo == ParseInt(SubSeq(v.s, 5, 6))
             d == ParseInt(SubSeq(v.s, 7, 8))
         IN DaysBeforeYear(y) + DaysBeforeMonth(y, mo) + d

SetMin(S) == CHOOSE x \in S : \A y \in S : x <= y
SetMax(S) == CHOOSE x \in S : \A y \in S : x >= y

HexDigit(d) == SubSeq("0123456789abcdef", d + 1, d + 1)
\* format(n, "02x")
Hex02(n) ==
    IF n < 16 THEN "0" \o HexDigit(n)
    ELSE IF n < 256 THEN HexDigit(n \div 16) \o HexDigit(n % 16)
    ELSE HexDigit(n \div 256) \o HexDigit((n \div 16) % 16) \o HexDigit(n % 16)

\* ------------------------------------------------------------ layers
\* A folium layer: what LayerControl and the page read of it, and its children.
Layer(kind, name, overlay, show, children) ==
    [kind |-> kind, name |-> name, overlay |-> overlay, control |-> TRUE,
     show |-> show, children |-> children]

\* Mutant: the basemap left an overlay (overlay=False forgotten).
BasemapAsOverlay == Layer("TileLayer", "Planet Basemap", TRUE, FALSE, <<>>)

\* folium.TileLayer(planet_url, name="Planet Basemap", overlay=False,
\*                  control=True, show=False)
Basemap == Layer("TileLayer", "Planet Basemap", FALSE, FALSE, <<>>)

\* Mutant: show=False forgotten, so folium's default show=True applies.
FeatureGroupShown(name, children) == Layer("FeatureGroup", name, TRUE, TRUE, children)

\* folium.FeatureGroup(name=..., show=False); overlay and control default to True.
FeatureGroup(name, children) == Layer("FeatureGroup", name, TRUE, FALSE, children)

\* x.add_to(m)
AddTo(map, layer) == [map EXCEPT !.layers = Append(@, layer)]

\* Styles keep weight, opacity and fillOpacity in tenths.
RegionStyle ==
    [fillColor |-> "#FF6B6B", color |-> "#FF0000", weight10 |-> 30,
     opacity10 |-> 8, fillOpacity10 |-> 1, dashArray |-> "5, 5"]
DistrictStyle ==
    [fillColor |-> "#FFB366", color |-> "#FFA500", weight10 |-> 15,
     opacity10 |-> 7, fillOpacity10 |-> 1]
LicenseStyle ==
    [fillColor |-> "#0000FF", color |-> "#000080", weight10 |-> 20,
     fillOpacity10 |-> 3]

\* --- regions
RegionRaises(row) == ~HasGeometry(row)
RegionElement(row) ==
    LET region_name == Get(row, "NAME_1", Str("Unknown"))
    IN [style |-> RegionStyle,
        tooltip |-> "<b>Region:</b> " \o PyStr(region_name)]

\* --- district boundaries
DistrictRaises(row) == ~HasGeometry(row)
DistrictElement(row) ==
    LET district_name == Get(row, "NAME_2", Str("Unknown"))
        region_name == Get(row, "NAME_1", Str("Unknown"))
    IN [style |-> DistrictStyle,
        tooltip |-> "<b>District:</b> " \o PyStr(district_name)
                    \o "<br><b>Region:</b> " \o PyStr(region_name)]

\* --- districts by mining ratio
\* v == -1
IsMinusOne(v) == (v.t = "int" /\ v.i = -1) \/ (v.t = "num" /\ v.n = -8)
\* v > 0 raises TypeError for None and str; it is False for nan.
CanCompare(v) == v.t \in {"int", "num", "nan"}
Positive(v) == (v.t = "int" /\ v.i > 0) \/ (v.t = "num" /\ v.n > 0)

\* Mutant: any negative ratio taken for the sentinel.
RatioTextAnyNegative(mining_ratio) ==
    IF (mining_ratio.t = "int" /\ mining_ratio.i < 0)
       \/ (mining_ratio.t = "num" /\ mining_ratio.n < 0)
    THEN "No licensed mining" ELSE Fixed2(mining_ratio)

RatioText(mining_ratio) ==
    IF IsMinusOne(mining_ratio) THEN "No licensed mining" ELSE Fixed2(mining_ratio)

\* Mutant: the sentinel not handled.
FillOpacityNoSentinel(fill_color) == 6

FillOpacity10(fill_color) == IF fill_color # Str("transparent") THEN 6 ELSE 0
FillColor(fill_color) ==
    IF fill_color # Str("transparent") THEN fill_color ELSE Str("#000000")

RatioRaises(props) ==
    \/ ~CanCompare(Get(props, "excess_mining_ha", Whole(0)))
    \/ ~Has(props, {"mining_ratio", "district_name", "mp_name", "party",
                    "constituency", "licensed_mining_ha", "detected_mining_ha",
                    "fill_color"})
    \/ (~IsMinusOne(props["mining_ratio"]) /\ ~CanFixed2(props["mining_ratio"]))
    \/ ~HasGeometry(props)

RatioElement(props) ==
    LET excess == Get(props, "excess_mining_ha", Whole(0))
        excess_color == IF Positive(excess) THEN "red" ELSE "green"
        ratio_text == RatioText(props["mining_ratio"])
        link == Get(props, "profile_link", None)
        popup_html ==
            [title |-> PyStr(props["district_name"]),
             mp |-> PyStr(props["mp_name"]) \o " (" \o PyStr(props["party"]) \o ")",
             constituency |-> PyStr(props["constituency"]),
             profile |-> IF Truthy(link) THEN PyStr(link) ELSE "",
             licensed |-> PyStr(props["licensed_mining_ha"]) \o " ha",
             detected |-> PyStr(props["detected_mining_ha"]) \o " ha",
             unlicensed |-> PyStr(excess) \o " ha",
             unlicensed_color |-> excess_color]
        tooltip_text == PyStr(props["district_name"]) \o ": " \o ratio_text
        fill_color == props["fill_color"]
        fill_opacity == FillOpacity10(fill_color)
    IN [style |-> [fillColor |-> FillColor(fill_color), color |-> "black",
                   weight10 |-> 10, fillOpacity10 |-> fill_opacity],
        popup |-> popup_html,
        tooltip |-> tooltip_text]

\* --- detections
Columns(gdf) == gdf.columns
Dates(gdf) == {ToDatetime(gdf.rows[i]["date"]) : i \in 1..Len(gdf.rows)} \ {NaT}
\* dates.min(): NaT when there is no date
DateMin(gdf) == IF Dates(gdf) = {} THEN NaT ELSE SetMin(Dates(gdf))
\* (dates.max() - date_min).days: nan (written NaT) when there is no date
DateRange(gdf) == IF Dates(gdf) = {} THEN NaT ELSE SetMax(Dates(gdf)) - DateMin(gdf)

\* Mutant: integer division of the day counts before scaling.
ColorIntensityFloorDiv(days_since_min, date_range) ==
    255 * (days_since_min \div date_range)

\* int(255 * (days_since_min / date_range)).  The quotient and the product
\* are floats; for day counts of this size the truncation of the float
\* product is the floor of the exact quotient 255 * days / range.
ColorIntensity(days_since_min, date_range) == (255 * days_since_min) \div date_range

DetectionFill(row, date_min, date_range) ==
    IF date_range = 0 THEN "#800000"
    ELSE LET date_val == ToDatetime(row["date"])
             days_since_min == date_val - date_min
             color_intensity == ColorIntensity(days_since_min, date_range)
         IN "#" \o Hex02(color_intensity) \o "0000"

\* int(nan) raises ValueError: a row without a date when the range is not 0.
DetectionRaises(row, date_min, date_range) ==
    \/ (date_range # 0 /\ (date_range = NaT \/ ToDatetime(row["date"]) = NaT))
    \/ ~Has(row, {"n_detections"})
    \/ ~HasGeometry(row)

DetectionElement(row, date_min, date_range) ==
    [style |-> [fillColor |-> DetectionFill(row, date_min, date_range),
                color |-> "#8B0000", weight10 |-> 15, fillOpacity10 |-> 6],
     tooltip |-> "<b>Detected Activity</b><br><b>Date:</b> " \o PyStr(row["date"])
                 \o "<br><b>Detections:</b> " \o PyStr(row["n_detections"])]

\* --- licenses
LicenseDate(v) == IF NotNa(v) THEN Take(PyStr(v), 10) ELSE "N/A"

LicenseRaises(row) ==
    \/ ~Has(row, {"start_date", "expiry_date", "lic_code", "owner_name", "type",
                  "area_ha", "owner_address", "owner_city"})
    \/ ~CanFixed2(row["area_ha"])
    \/ ~HasGeometry(row)

LicenseElement(row) ==
    LET start_date == LicenseDate(row["start_date"])
        end_date == LicenseDate(row["expiry_date"])
    IN [style |-> LicenseStyle,
        tooltip |-> "<b>" \o PyStr(row["lic_code"]) \o "</b><br><b>Owner:</b> "
                    \o PyStr(row["owner_name"]) \o "<br><b>Type:</b> "
                    \o PyStr(row["type"]) \o "<br><b>Start Date:</b> " \o start_date
                    \o "<br><b>End Date:</b> " \o end_date \o "<br><b>Acreage:</b> "
                    \o Fixed2(row["area_ha"]) \o " ha<br><b>Address:</b> "
                    \o PyStr(row["owner_address"]) \o "<br><b>City:</b> "
                    \o PyStr(row["owner_city"])]

\* --- satellite images
Resolutions == <<[res |-> "med", label |-> "Medium"], [res |-> "low", label |-> "Low"],
                 [res |-> "", label |-> "Original"]>>
PngDir == "www/"
\* os.path.join(SATELLITE_PNG_DIR, f"{image_name}{suffix}.png")
TestPath(image_name, res) ==
    PngDir \o image_name \o (IF res # "" THEN "_" \o res ELSE "") \o ".png"
\* os.path.basename(img_path)
Basename(path) == Drop(path, Len(PngDir))

\* Mutant: the loop without its break keeps the last existing file.
ProbeLast(image_name, exists) ==
    LET hits == {i \in 1..Len(Resolutions) : TestPath(image_name, Resolutions[i].res) \in exists}
    IN IF hits = {} THEN 0 ELSE SetMax(hits)

\* The probe loop: the index of the first resolution whose file exists, 0 if none.
Probe(image_name, exists) ==
    LET hits == {i \in 1..Len(Resolutions) : TestPath(image_name, Resolutions[i].res) \in exists}
    IN IF hits = {} THEN 0 ELSE SetMin(hits)

OverlayName(image_name, res_label) ==
    "Sat: " \o Take(image_name, 15) \o "... (" \o res_label \o ")"

\* ------------------------------------------------------------ license bounds
\* gdf.total_bounds: <<minx, miny, maxx, maxy>> over the geometries that are
\* not null; four nan when there is none.
Extents(gdf) ==
    {gdf.rows[i]["geometry"].bbox : i \in {j \in 1..Len(gdf.rows) : HasGeometry(gdf.rows[j])}}
TotalBounds(gdf) ==
    LET e == Extents(gdf)
    IN IF e = {} THEN <<NaN, NaN, NaN, NaN>>
       ELSE <<Num(SetMin({b[1] : b \in e})), Num(SetMin({b[2] : b \in e})),
              Num(SetMax({b[3] : b \in e})), Num(SetMax({b[4] : b \in e}))>>

\* (a + b) / 2 on floats: nan if either is nan.
Midpoint(a, b) ==
    IF a.t = "nan" \/ b.t = "nan" THEN NaN ELSE Num((a.n + b.n) \div 2)

\* [center_lat, center_lon] of bounds = <<minx, miny, maxx, maxy>>
Center(b) == <<Midpoint(b[2], b[4]), Midpoint(b[1], b[3])>>

\* ------------------------------------------------------------ satellite bounds
\* transformer.transform(x, y) from EPSG:32630 to EPSG:4326 with always_xy:
\* (easting, northing) in, (lon, lat) out.  Eastings and northings are in km,
\* longitudes and latitudes in thousandths of a degree.  The projection is
\* pyproj's; it is stood for by a first-order inverse about the zone's central
\* meridian (3 W, false easting 500 km), in which the longitude depends on both
\* arguments.
Transform(x, y) ==
    <<(9 * (x - 500) + ((x - 500) * y) \div 20000) - 3000, 9 * y>>

\* Mutant: the geographic edges left as the projected ones.
ConvertEntryUntransformed(bounds_utm) ==
    [image_name |-> bounds_utm.image_name,
     north |-> bounds_utm.north, south |-> bounds_utm.south,
     east |-> bounds_utm.east, west |-> bounds_utm.west,
     north_utm |-> bounds_utm.north, south_utm |-> bounds_utm.south,
     east_utm |-> bounds_utm.east, west_utm |-> bounds_utm.west]

\* One entry of satellite_bounds, made from one entry of the bounds file.
ConvertEntry(bounds_utm) ==
    LET sw == Transform(bounds_utm.west, bounds_utm.south)
        ne == Transform(bounds_utm.east, bounds_utm.north)
    IN [image_name |-> bounds_utm.image_name,
        north |-> ne[2], south |-> sw[2], east |-> ne[1], west |-> sw[1],
        north_utm |-> bounds_utm.north, south_utm |-> bounds_utm.south,
        east_utm |-> bounds_utm.east, west_utm |-> bounds_utm.west]

\* satellite_bounds after startup: empty when the file does not exist.
LoadBounds(file) ==
    IF file.exists
    THEN [i \in 1..Len(file.entries) |-> ConvertEntry(file.entries[i])]
    ELSE <<>>

\* ------------------------------------------------------------ datasets
\* A GeoDataFrame: its columns, and its rows (each a function on the columns).
Frame(columns, rows) == [columns |-> columns, rows |-> rows]
SeqsUpTo(S, n) == UNION {[1..k -> S] : k \in 0..n}
FramesOver(columns, rowSet, n) == {Frame(columns, r) : r \in SeqsUpTo(rowSet, n)}
Without(row, key) == [k \in (DOMAIN row) \ {key} |-> row[k]]
DropColumn(frame, key) ==
    Frame(frame.columns \ {key},
          [i \in 1..Len(frame.rows) |-> Without(frame.rows[i], key)])

RegionRow == [geometry |-> Polygon, NAME_1 |-> Str("Ashanti")]
DistrictRow == [geometry |-> Polygon, NAME_1 |-> Str("Ashanti"), NAME_2 |-> Str("Obuasi")]
RatioRow ==
    [geometry |-> Polygon, district_name |-> Str("Obuasi"), mp_name |-> Str("K. Mensah"),
     party |-> Str("NPP"), constituency |-> Str("Obuasi West"),
     profile_link |-> Str("https://example.org/mp"), licensed_mining_ha |-> Num(100),
     detected_mining_ha |-> Num(130), excess_mining_ha |-> Num(30),
     mining_ratio |-> Num(3), fill_color |-> Str("#ffff00")]
DetectionRow == [geometry |-> Polygon, date |-> Str("20231230"), n_detections |-> Whole(3)]
LicenseRow ==
    [geometry |-> Polygon, lic_code |-> Str("SSM-001"), owner_name |-> Str("A. Owusu"),
     type |-> Str("Small Scale"), start_date |-> Str("2020-01-15T00:00:00"),
     expiry_date |-> Str("2025-01-14T00:00:00"), area_ha |-> Num(81),
     owner_address |-> Str("Box 1"), owner_city |-> Str("Kumasi")]

\* The minimal dataset: one record in each collection, no satellite bounds.
MinRegions == Frame(DOMAIN RegionRow, <<RegionRow>>)
MinDistricts == Frame(DOMAIN DistrictRow, <<DistrictRow>>)
MinRatios == Frame(DOMAIN RatioRow, <<RatioRow>>)
MinDetections == Frame(DOMAIN DetectionRow, <<DetectionRow>>)
MinLicenses == Frame(DOMAIN LicenseRow, <<LicenseRow>>)

\* The frames each collection ranges over.
WithDrops(frames, keys) == frames \cup {DropColumn(f, k) : f \in frames, k \in keys}

RegionRows == {[RegionRow EXCEPT !.geometry = g, !.NAME_1 = n] :
                  g \in {Polygon, None}, n \in {Str("Ashanti"), None}}
RegionFrames ==
    FramesOver(DOMAIN RegionRow, RegionRows, MaxRows)
    \cup WithDrops(FramesOver(DOMAIN RegionRow, {RegionRow}, MaxRows), {"NAME_1"})

DistrictRows == {[DistrictRow EXCEPT !.geometry = g, !.NAME_2 = n] :
                    g \in {Polygon, None}, n \in {Str("Obuasi"), None}}
DistrictFrames ==
    FramesOver(DOMAIN DistrictRow, DistrictRows, MaxRows)
    \cup WithDrops(FramesOver(DOMAIN DistrictRow, {DistrictRow}, MaxRows),
                   {"NAME_1", "NAME_2"})

RatioValues == {Num(k) : k \in {-12, -8, -1} \cup 0..MaxEighths} \cup {Whole(-1), NaN, None}
RatioColors == {Str("transparent"), Str("#ff0000"), None}
RatioRows ==
    {[RatioRow EXCEPT !.fill_color = c, !.mining_ratio = r] :
        c \in RatioColors, r \in RatioValues}
    \cup {[RatioRow EXCEPT !.fill_color = c, !.excess_mining_ha = e] :
             c \in RatioColors, e \in {Num(0), NaN, None}}
    \cup {[RatioRow EXCEPT !.geometry = None],
          [RatioRow EXCEPT !.profile_link = None], [RatioRow EXCEPT !.profile_link = NaN]}
RatioFrames ==
    FramesOver(DOMAIN RatioRow, RatioRows, MaxRatioRows)
    \cup WithDrops(FramesOver(DOMAIN RatioRow, {RatioRow}, MaxRatioRows),
                   (DOMAIN RatioRow) \ {"geometry"})

AllDates == <<"20231230", "20231231", "20240101", "20240301", "20240302", "20250101">>
DatePool == {Str(AllDates[i]) : i \in 1..Min(NDates, Len(AllDates))}
DetectionRows == {[DetectionRow EXCEPT !.date = d] : d \in DatePool \cup {None}}
DetectionFrames ==
    FramesOver(DOMAIN DetectionRow, DetectionRows, MaxDet)
    \cup FramesOver(DOMAIN DetectionRow, {[DetectionRow EXCEPT !.geometry = None]}, 1)
    \cup WithDrops(FramesOver(DOMAIN DetectionRow, {DetectionRow}, 1),
                   {"date", "n_detections"})

LicenseRows ==
    {[LicenseRow EXCEPT !.start_date = a, !.expiry_date = b] :
        a \in {Str("2020-01-15T00:00:00"), None}, b \in {Str("2025-01"), NaN}}
    \cup {[LicenseRow EXCEPT !.area_ha = h] : h \in {NaN, None}}
    \cup {[LicenseRow EXCEPT !.geometry = None]}
\* Extents of license polygons: apart, nested, overlapping.
LicenseBoxes ==
    {Box(-24, 40, -20, 44), Box(-18, 50, -10, 62), Box(-16, 52, -12, 56),
     Box(-22, 42, -14, 88)}
LocatedLicenseRows ==
    {[LicenseRow EXCEPT !.geometry = g] : g \in LicenseBoxes \cup {None}}
LicenseFrames ==
    FramesOver(DOMAIN LicenseRow, LicenseRows, MaxRows)
    \cup FramesOver(DOMAIN LicenseRow, LocatedLicenseRows, MaxRows)
    \cup WithDrops(FramesOver(DOMAIN LicenseRow, {LicenseRow}, 1),
                   (DOMAIN LicenseRow) \ {"geometry"})

ImageNames == <<"S2A_20240115T102341_T30NWN", "tile_b", "tile_c", "tile_d">>
\* The projected edges of the i-th image, in km.
EdgesUtm(i) ==
    [image_name |-> ImageNames[i], west |-> 600 + 20 * i, south |-> 640 + 10 * i,
     east |-> 610 + 20 * i, north |-> 655 + 10 * i]
\* A bounds file with the first n images, in that order; and no bounds file.
BoundsFile(n) == [exists |-> TRUE, entries |-> [i \in 1..n |-> EdgesUtm(i)]]
NoBoundsFile == [exists |-> FALSE, entries |-> <<>>]
PathsOf(n) == {TestPath(ImageNames[i], Resolutions[j].res) :
                  i \in 1..n, j \in 1..Len(Resolutions)}

\* ------------------------------------------------------------ startup
\* A map not yet created; viewport is the sequence of view operations the
\* page will run, in order.
NoMap == [layers |-> <<>>, html |-> <<>>, controls |-> <<>>, viewport |-> <<>>]
\* folium.Map(location=location, zoom_start=zoom_start, ...)
Map(location, zoom_start) ==
    [NoMap EXCEPT !.viewport =
        <<[op |-> "setView", center |-> location, zoom |-> zoom_start]>>]
\* folium rejects a location holding a nan where it validates locations.
LocationHasNaN(location) == \E i \in 1..Len(location) : location[i].t = "nan"

\* Mutant: the corners given longitude first.
FitBoundsLonLat(map, b) ==
    [map EXCEPT !.viewport =
        Append(@, [op |-> "fitBounds", bounds |-> <<<<b[1], b[2]>>, <<b[3], b[4]>>>>])]

\* m.fit_bounds([[bounds[1], bounds[0]], [bounds[3], bounds[2]]])
FitBounds(map, b) ==
    [map EXCEPT !.viewport =
        Append(@, [op |-> "fitBounds", bounds |-> <<<<b[2], b[1]>>, <<b[4], b[3]>>>>])]
NoPage == [label \in {} |-> FALSE]

\* The state once the module is imported and before the first request.  One
\* collection ranges over its frames while the others hold the minimal dataset.
Loaded(lic, reg, dis, det, rat, file, exists) ==
    /\ gdf_licenses = lic
    /\ gdf_regions = reg
    /\ gdf_districts = dis
    /\ gdf_detections = det
    /\ gdf_district_ratios = rat
    /\ satellite_bounds_file = file
    /\ satellite_bounds = LoadBounds(file)
    /\ bounds = TotalBounds(lic)
    /\ center_lat = Center(TotalBounds(lic))[1]
    /\ center_lon = Center(TotalBounds(lic))[2]
    /\ files = exists

InitData ==
    \/ \E f \in LicenseFrames :
          Loaded(f, MinRegions, MinDistricts, MinDetections, MinRatios, BoundsFile(0), {})
    \/ \E f \in RegionFrames :
          Loaded(MinLicenses, f, MinDistricts, MinDetections, MinRatios, BoundsFile(0), {})
    \/ \E f \in DistrictFrames :
          Loaded(MinLicenses, MinRegions, f, MinDetections, MinRatios, BoundsFile(0), {})
    \/ \E f \in DetectionFrames :
          Loaded(MinLicenses, MinRegions, MinDistricts, f, MinRatios, BoundsFile(0), {})
    \/ \E f \in RatioFrames :
          Loaded(MinLicenses, MinRegions, MinDistricts, MinDetections, f, BoundsFile(0), {})
    \/ \E n \in 0..Min(MaxImages, Len(ImageNames)) : \E exists \in SUBSET PathsOf(n) :
          Loaded(MinLicenses, MinRegions, MinDistricts, MinDetections, MinRatios,
                 BoundsFile(n), exists)
    \/ \E exists \in SUBSET PathsOf(1) :
          Loaded(MinLicenses, MinRegions, MinDistricts, MinDetections, MinRatios,
                 NoBoundsFile, exists)

Init ==
    /\ InitData
    /\ pc = "idle"
    /\ m = NoMap
    /\ sat_i = 1
    /\ satellite_grp = <<>>
    /\ images_added = 0
    /\ sat_log = <<>>
    /\ checked = NoPage
    /\ legend_display = "none"
    /\ listening = FALSE

\* ------------------------------------------------------------ map()
Goto(label) == pc' = label
Raise == pc' = "raised" /\ UNCHANGED m

\* Mutant: the satellite group kept from one request to the next, as if it
\* were created once at module level.
CreateMapKeepingGroup ==
    /\ pc \in {"idle", "returned", "raised"}
    /\ \/ /\ m' = Map(<<center_lat, center_lon>>, 8)
          /\ Goto("basemap")
       \/ /\ LocationHasNaN(<<center_lat, center_lon>>)
          /\ m' = NoMap
          /\ pc' = "raised"
    /\ sat_i' = 1
    /\ images_added' = 0
    /\ sat_log' = <<>>
    /\ UNCHANGED <<satellite_grp, dataVars, pageVars>>

\* m = folium.Map(...): a request starts a new build.
CreateMap ==
    /\ pc \in {"idle", "returned", "raised"}
    /\ \/ /\ m' = Map(<<center_lat, center_lon>>, 8)
          /\ Goto("basemap")
       \/ /\ LocationHasNaN(<<center_lat, center_lon>>)
          /\ m' = NoMap
          /\ pc' = "raised"
    /\ sat_i' = 1
    /\ satellite_grp' = <<>>
    /\ images_added' = 0
    /\ sat_log' = <<>>
    /\ UNCHANGED <<dataVars, pageVars>>

AddBasemap ==
    /\ pc = "basemap"
    /\ m' = AddTo(m, Basemap)
    /\ Goto("satellite")
    /\ UNCHANGED <<satVars, dataVars, pageVars>>

\* One iteration of the satellite loop.  read_ok: opening, reading and encoding
\* the file and building the overlay from the data URL succeed; fallback_ok:
\* building the overlay from the bare filename succeeds.
ImageOverlay(image, image_name, res_label) ==
    [image |-> image, name |-> OverlayName(image_name, res_label), opacity10 |-> 8]

DataUrl(img_path) == "data:image/png;base64," \o img_path

\* Mutant: the first attempt fails after its overlay was added (the counter
\* not yet incremented), and the fallback adds a second overlay.
SatelliteIterationTwice(grp, added, image_name, exists, read_ok, fallback_ok) ==
    LET r == Probe(image_name, exists)
        img_path == TestPath(image_name, Resolutions[r].res)
        res_label == Resolutions[r].label
        first == ImageOverlay(DataUrl(img_path), image_name, res_label)
        second == ImageOverlay(Basename(img_path), image_name, res_label)
    IN IF r = 0
       THEN [grp |-> grp, images_added |-> added, printed |-> <<"No image found">>]
       ELSE IF read_ok
       THEN [grp |-> Append(grp, first), images_added |-> added + 1,
             printed |-> <<"Adding image">>]
       ELSE IF fallback_ok
       THEN [grp |-> Append(Append(grp, first), second), images_added |-> added + 1,
             printed |-> <<"Adding image", "Error adding image">>]
       ELSE [grp |-> Append(grp, first), images_added |-> added,
             printed |-> <<"Adding image", "Error adding image", "Fallback also failed">>]

SatelliteIteration(grp, added, image_name, exists, read_ok, fallback_ok) ==
    LET r == Probe(image_name, exists)
        img_path == TestPath(image_name, Resolutions[r].res)
        res_label == Resolutions[r].label
    IN IF r = 0
       THEN [grp |-> grp, images_added |-> added, printed |-> <<"No image found">>]
       ELSE IF read_ok
       THEN [grp |-> Append(grp, ImageOverlay(DataUrl(img_path), image_name, res_label)),
             images_added |-> added + 1,
             printed |-> <<"Adding image">>]
       ELSE IF fallback_ok
       THEN [grp |-> Append(grp, ImageOverlay(Basename(img_path), image_name, res_label)),
             images_added |-> added + 1,
             printed |-> <<"Adding image", "Error adding image">>]
       ELSE [grp |-> grp, images_added |-> added,
             printed |-> <<"Adding image", "Error adding image", "Fallback also failed">>]

SatelliteEntry ==
    /\ pc = "satellite"
    /\ sat_i <= Len(satellite_bounds)
    /\ \E read_ok \in BOOLEAN, fallback_ok \in BOOLEAN :
          LET after == SatelliteIteration(satellite_grp, images_added,
                                          satellite_bounds[sat_i].image_name, files,
                                          read_ok, fallback_ok)
          IN /\ satellite_grp' = after.grp
             /\ images_added' = after.images_added
             /\ sat_log' = Append(sat_log, after.printed)
    /\ sat_i' = sat_i + 1
    /\ UNCHANGED <<pc, m, dataVars, pageVars>>

SatelliteLayer(children) == FeatureGroup("Satellite Images (High-Res)", children)

AttachSatellite ==
    /\ pc = "satellite"
    /\ sat_i > Len(satellite_bounds)
    /\ m' = AddTo(m, SatelliteLayer(satellite_grp))
    /\ Goto("regions")
    /\ UNCHANGED <<satVars, dataVars, pageVars>>

\* A thematic layer: one GeoJson child per row, unless a row raises.
Elements(rows, Element(_)) == [i \in 1..Len(rows) |-> Element(rows[i])]

RegionLayer(gdf) == FeatureGroup("Regions", Elements(gdf.rows, RegionElement))
RatioLayer(gdf) ==
    FeatureGroup("Districts by Mining Ratio", Elements(gdf.rows, RatioElement))
DistrictLayer(gdf) ==
    FeatureGroup("District Boundaries", Elements(gdf.rows, DistrictElement))
LicenseLayer(gdf) == FeatureGroup("Licensed sites", Elements(gdf.rows, LicenseElement))

BuildRegions ==
    /\ pc = "regions"
    /\ IF \E i \in 1..Len(gdf_regions.rows) : RegionRaises(gdf_regions.rows[i])
       THEN Raise
       ELSE /\ m' = AddTo(m, RegionLayer(gdf_regions))
            /\ Goto("ratios")
    /\ UNCHANGED <<satVars, dataVars, pageVars>>

BuildDistrictRatios ==
    /\ pc = "ratios"
    /\ IF \E i \in 1..Len(gdf_district_ratios.rows) :
             RatioRaises(gdf_district_ratios.rows[i])
       THEN Raise
       ELSE /\ m' = AddTo(m, RatioLayer(gdf_district_ratios))
            /\ Goto("districts")
    /\ UNCHANGED <<satVars, dataVars, pageVars>>

BuildDistricts ==
    /\ pc = "districts"
    /\ IF \E i \in 1..Len(gdf_districts.rows) : DistrictRaises(gdf_districts.rows[i])
       THEN Raise
       ELSE /\ m' = AddTo(m, DistrictLayer(gdf_districts))
            /\ Goto("detections")
    /\ UNCHANGED <<satVars, dataVars, pageVars>>

\* gdf_detections['date'] raises KeyError when the frame has no such column.
DetectionsRaise(gdf) ==
    \/ "date" \notin Columns(gdf)
    \/ \E i \in 1..Len(gdf.rows) :
          DetectionRaises(gdf.rows[i], DateMin(gdf), DateRange(gdf))

DetectionElements(gdf) ==
    LET date_min == DateMin(gdf)
        date_range == DateRange(gdf)
    IN [i \in 1..Len(gdf.rows) |-> DetectionElement(gdf.rows[i], date_min, date_range)]

DetectionLayer(gdf) == FeatureGroup("Detected Mining Activity", DetectionElements(gdf))

BuildDetections ==
    /\ pc = "detections"
    /\ IF DetectionsRaise(gdf_detections)
       THEN Raise
       ELSE /\ m' = AddTo(m, DetectionLayer(gdf_detections))
            /\ Goto("licenses")
    /\ UNCHANGED <<satVars, dataVars, pageVars>>

BuildLicenses ==
    /\ pc = "licenses"
    /\ IF \E i \in 1..Len(gdf_licenses.rows) : LicenseRaises(gdf_licenses.rows[i])
       THEN Raise
       ELSE /\ m' = AddTo(m, LicenseLayer(gdf_licenses))
            /\ Goto("legend")
    /\ UNCHANGED <<satVars, dataVars, pageVars>>

\* m.get_root().html.add_child(folium.Element(legend_html))
AddHtml(map, element) == [map EXCEPT !.html = Append(@, element)]
AddControl(map, control) == [map EXCEPT !.controls = Append(@, control)]

LegendHtml == [id |-> "mining-legend", display |-> "none"]
AddLegend ==
    /\ pc = "legend"
    /\ m' = AddHtml(m, LegendHtml)
    /\ Goto("legend_js")
    /\ UNCHANGED <<satVars, dataVars, pageVars>>

LegendJs == [id |-> "legend_js", display |-> "script"]
AddLegendJs ==
    /\ pc = "legend_js"
    /\ m' = AddHtml(m, LegendJs)
    /\ Goto("control")
    /\ UNCHANGED <<satVars, dataVars, pageVars>>

\* Mutant: the layer control attached before the license layer.
AddLayerControlEarly ==
    /\ pc = "licenses"
    /\ m.controls = <<>>
    /\ m' = AddControl(m, "LayerControl")
    /\ UNCHANGED <<pc, satVars, dataVars, pageVars>>

\* folium.LayerControl(collapsed=False, position='topright').add_to(m)
AddLayerControl ==
    /\ pc = "control"
    /\ m' = AddControl(m, "LayerControl")
    /\ Goto("fit")
    /\ UNCHANGED <<satVars, dataVars, pageVars>>

\* m.fit_bounds(...); return ui.HTML(m._repr_html_())
Return ==
    /\ pc = "fit"
    /\ m' = FitBounds(m, bounds)
    /\ Goto("returned")
    /\ UNCHANGED <<satVars, dataVars, pageVars>>

Next ==
    \/ CreateMap
    \/ AddBasemap
    \/ SatelliteEntry
    \/ AttachSatellite
    \/ BuildRegions
    \/ BuildDistrictRatios
    \/ BuildDistricts
    \/ BuildDetections
    \/ BuildLicenses
    \/ AddLegend
    \/ AddLegendJs
    \/ AddLayerControl
    \/ Return

Spec == Init /\ [][Next]_vars

\* ------------------------------------------------------------ the served page
\* legend_js, run by the browser on the document map() returned.  The layer
\* control lists one checkbox per overlay layer, checked when the layer is shown.
RatioLabel == "Districts by Mining Ratio"

Checkboxes(map) ==
    IF map.controls = <<>> THEN {}
    ELSE {map.layers[i].name : i \in {j \in 1..Len(map.layers) :
                                  map.layers[j].overlay /\ map.layers[j].control}}
ShownAtLoad(map, label) ==
    \E i \in 1..Len(map.layers) : map.layers[i].name = label /\ map.layers[i].show

\* Mutant: the label test dropped, any checked overlay shows the legend.
UpdateLegendVisibilityAnyLayer(boxes) ==
    LET showLegend == \E label \in DOMAIN boxes : boxes[label]
    IN IF showLegend THEN "block" ELSE "none"

\* updateLegendVisibility(): the display it gives the legend
UpdateLegendVisibility(boxes) ==
    LET showLegend == \E label \in DOMAIN boxes : label = RatioLabel /\ boxes[label]
    IN IF showLegend THEN "block" ELSE "none"

MinimalDocument ==
    LET layers == <<Basemap, SatelliteLayer(<<>>), RegionLayer(MinRegions),
                    RatioLayer(MinRatios), DistrictLayer(MinDistricts),
                    DetectionLayer(MinDetections), LicenseLayer(MinLicenses)>>
        created == [Map(Center(TotalBounds(MinLicenses)), 8) EXCEPT !.layers = layers]
    IN FitBounds(AddControl(AddHtml(AddHtml(created, LegendHtml), LegendJs),
                            "LayerControl"),
                 TotalBounds(MinLicenses))

\* The page as the browser first shows it: the document of the minimal dataset.
PageInit ==
    /\ Loaded(MinLicenses, MinRegions, MinDistricts, MinDetections, MinRatios,
              BoundsFile(0), {})
    /\ pc = "returned"
    /\ m = MinimalDocument
    /\ sat_i = 1
    /\ satellite_grp = <<>>
    /\ images_added = 0
    /\ sat_log = <<>>
    /\ checked = [label \in Checkboxes(m) |-> ShownAtLoad(m, label)]
    /\ legend_display = LegendHtml.display
    /\ listening = FALSE

\* The setTimeout callback, 1000 ms after DOMContentLoaded: attach the change
\* listeners, then the initial check.
SetupTimer ==
    /\ ~listening
    /\ listening' = TRUE
    /\ legend_display' = UpdateLegendVisibility(checked)
    /\ UNCHANGED <<checked, dataVars, buildVars>>

\* The viewer clicks a layer checkbox; the change listener runs if attached.
Change(label) ==
    /\ checked' = [checked EXCEPT ![label] = ~@]
    /\ legend_display' = IF listening THEN UpdateLegendVisibility(checked')
                         ELSE legend_display
    /\ UNCHANGED <<listening, dataVars, buildVars>>

PageNext ==
    \/ SetupTimer
    \/ \E label \in DOMAIN checked : Change(label)

PageSpec == PageInit /\ [][PageNext]_vars

\* ------------------------------------------------------------ properties
HasLayer(name) == \E i \in 1..Len(m.layers) : m.layers[i].name = name
LayerNamed(name) == m.layers[CHOOSE i \in 1..Len(m.layers) : m.layers[i].name = name]
LayerOrder ==
    <<"Planet Basemap", "Satellite Images (High-Res)", "Regions",
      "Districts by Mining Ratio", "District Boundaries",
      "Detected Mining Activity", "Licensed sites">>
LayerNames == [i \in 1..Len(m.layers) |-> m.layers[i].name]
IsNull(v) == v.t \in {"none", "nan"}

\* A record of some collection has a null geometry or attribute, or lacks a
\* column its layer reads.
NullOrAbsentIn(gdf, row) ==
    \E i \in 1..Len(gdf.rows) :
        \/ \E k \in DOMAIN gdf.rows[i] : IsNull(gdf.rows[i][k])
        \/ DOMAIN gdf.rows[i] # DOMAIN row
SomeNullOrAbsent ==
    \/ NullOrAbsentIn(gdf_licenses, LicenseRow)
    \/ NullOrAbsentIn(gdf_regions, RegionRow)
    \/ NullOrAbsentIn(gdf_districts, DistrictRow)
    \/ NullOrAbsentIn(gdf_detections, DetectionRow)
    \/ NullOrAbsentIn(gdf_district_ratios, RatioRow)

\* C1 (as claimed): no record with an absent or null geometry or attribute
\* ever makes the map() build raise.
C1_NullNeverRaises == SomeNullOrAbsent => pc # "raised"

\* C2: with the detections layer built, a collection whose dates are all the
\* same gets '#800000' on every record; otherwise the records dated d_min get
\* '#000000', those dated d_max get '#ff0000', and every record gets the red
\* intensity floor(255 * days since d_min / (d_max - d_min)) as two hex digits.
C2_DetectionColours ==
    HasLayer("Detected Mining Activity") =>
        LET rows == gdf_detections.rows
            els == LayerNamed("Detected Mining Activity").children
            day == [i \in 1..Len(rows) |-> ToDatetime(rows[i]["date"])]
            dated == {i \in 1..Len(rows) : ~IsNull(rows[i]["date"])}
        IN /\ Len(els) = Len(rows)
           /\ \A i \in 1..Len(rows) :
                 LET d_min == SetMin({day[j] : j \in dated})
                     d_max == SetMax({day[j] : j \in dated})
                     fill == els[i].style.fillColor
                 IN IF d_min = d_max THEN fill = "#800000"
                    ELSE /\ i \in dated
                         /\ day[i] = d_min => fill = "#000000"
                         /\ day[i] = d_max => fill = "#ff0000"
                         /\ \E q \in 0..255 :
                               /\ q * (d_max - d_min) <= 255 * (day[i] - d_min)
                               /\ 255 * (day[i] - d_min) < (q + 1) * (d_max - d_min)
                               /\ fill = "#" \o Hex02(q) \o "0000"

\* C2 witness: a built detections layer holding the earliest colour, the latest
\* colour and one strictly in between.
C2_Witness ==
    /\ HasLayer("Detected Mining Activity")
    /\ LET els == LayerNamed("Detected Mining Activity").children
           fills == {els[i].style.fillColor : i \in 1..Len(els)}
       IN /\ {"#000000", "#ff0000"} \subseteq fills
          /\ fills \ {"#000000", "#ff0000", "#800000"} # {}

\* C3 (as claimed): at every moment the legend is shown exactly when the
\* 'Districts by Mining Ratio' checkbox is checked.
C3_LegendFollowsCheckbox ==
    RatioLabel \in DOMAIN checked =>
        (legend_display = "block" <=> checked[RatioLabel])

\* A step that changes one checkbox other than the ratio layer's.
OtherCheckboxChanged ==
    \E label \in (DOMAIN checked) \ {RatioLabel} :
        checked' = [checked EXCEPT ![label] = ~@]

\* C3 (amended): the legend starts hidden and stays hidden until the setup
\* timer has run; from then on it is shown exactly when the 'Districts by
\* Mining Ratio' checkbox is checked; and a change of any other checkbox never
\* changes the legend's display.
C3_LegendAfterSetup ==
    /\ [](/\ RatioLabel \in DOMAIN checked
          /\ ~listening => legend_display = "none"
          /\ listening => (legend_display = "block" <=> checked[RatioLabel]))
    /\ [][OtherCheckboxChanged => legend_display' = legend_display]_vars

\* C3 witness: listeners attached, the ratio layer and another layer checked,
\* the legend shown.
C3_Witness ==
    /\ listening
    /\ RatioLabel \in DOMAIN checked
    /\ checked[RatioLabel]
    /\ checked["Regions"]
    /\ legend_display = "block"

\* The satellite entries the loop has gone through, and what each left behind.
Processed == 1..(sat_i - 1)
PathsOfEntry(j) ==
    LET name == satellite_bounds[j].image_name
    IN [med |-> PngDir \o name \o "_med.png", low |-> PngDir \o name \o "_low.png",
        orig |-> PngDir \o name \o ".png"]
FirstExisting(j) ==
    LET p == PathsOfEntry(j)
    IN IF p.med \in files THEN [path |-> p.med, label |-> "Medium"]
       ELSE IF p.low \in files THEN [path |-> p.low, label |-> "Low"]
       ELSE [path |-> p.orig, label |-> "Original"]
NoneExists(j) ==
    LET p == PathsOfEntry(j) IN {p.med, p.low, p.orig} \cap files = {}
OverlaysOf(j) ==
    LET p == PathsOfEntry(j)
    IN {k \in 1..Len(satellite_grp) :
           \E q \in {p.med, p.low, p.orig} :
              satellite_grp[k].image \in {"data:image/png;base64," \o q,
                                          SubSeq(q, 5, Len(q))}}
NoErrorBeforeSatelliteAttached == pc = "raised" => (m = NoMap \/ Len(m.layers) >= 2)

\* C4: an entry none of whose three files exists leaves no overlay; any other
\* entry's overlay is made from the first existing of _med, _low, original;
\* every entry is gone through (one log line group each) before the layer is
\* attached, and nothing raises between the map's creation and that attachment.
C4_ProbeOrder ==
    /\ \A j \in Processed :
          IF NoneExists(j)
          THEN OverlaysOf(j) = {} /\ sat_log[j] = <<"No image found">>
          ELSE \A k \in OverlaysOf(j) :
                  /\ satellite_grp[k].image \in
                        {"data:image/png;base64," \o FirstExisting(j).path,
                         SubSeq(FirstExisting(j).path, 5, Len(FirstExisting(j).path))}
                  /\ satellite_grp[k].name =
                        "Sat: " \o Take(satellite_bounds[j].image_name, 15)
                        \o "... (" \o FirstExisting(j).label \o ")"
    /\ Len(sat_log) = sat_i - 1
    /\ HasLayer("Satellite Images (High-Res)") => sat_i = Len(satellite_bounds) + 1
    /\ NoErrorBeforeSatelliteAttached

\* C4 witness: the first entry had no file and was skipped, the second had the
\* low and original files only and its overlay is made from the low one.
C4_Witness ==
    /\ sat_i = 3
    /\ NoneExists(1)
    /\ OverlaysOf(1) = {}
    /\ LET p == PathsOfEntry(2)
       IN /\ {p.med, p.low, p.orig} \cap files = {p.low, p.orig}
          /\ \E k \in OverlaysOf(2) : satellite_grp[k].image = "data:image/png;base64," \o p.low

\* C5: per entry with a located file, the overlay is the data URL when the
\* first attempt worked, the bare filename only when the first attempt failed,
\* and absent when both failed; an entry leaves at most one overlay,
\* images_added counts the overlays, and nothing raises out of the loop (a
\* build that raised either never created its map or has the layer attached).
C5_EmbedWithFallback ==
    /\ images_added = Len(satellite_grp)
    /\ NoErrorBeforeSatelliteAttached
    /\ Len(sat_log) = sat_i - 1
    /\ \A j \in Processed :
          LET path == FirstExisting(j).path
              imgs == {satellite_grp[k].image : k \in OverlaysOf(j)}
          IN /\ Cardinality(OverlaysOf(j)) <= 1
             /\ sat_log[j] = <<"Adding image">> =>
                   imgs = {"data:image/png;base64," \o path}
             /\ sat_log[j] = <<"Adding image", "Error adding image">> =>
                   imgs = {SubSeq(path, 5, Len(path))}
             /\ sat_log[j] \in {<<"No image found">>,
                                <<"Adding image", "Error adding image",
                                  "Fallback also failed">>} => imgs = {}
             /\ ~NoneExists(j) => sat_log[j][1] = "Adding image"

\* C5 witness: one entry embedded inline, one by filename after the first
\* attempt failed, and the counter stands at two.
C5_Witness ==
    /\ sat_i = 3
    /\ sat_log = <<<<"Adding image">>, <<"Adding image", "Error adding image">>>>
    /\ images_added = 2
    /\ Len(satellite_grp) = 2

\* C6: in the built ratio layer, a record whose fill_color is "transparent"
\* has fill opacity 0 whatever its other attributes; any other record has fill
\* opacity 0.6 and its fill colour is the attribute's value.
C6_TransparentOpacity ==
    HasLayer(RatioLabel) =>
        LET rows == gdf_district_ratios.rows
            els == LayerNamed(RatioLabel).children
        IN /\ Len(els) = Len(rows)
           /\ \A i \in 1..Len(rows) :
                 IF rows[i]["fill_color"] = [t |-> "str", s |-> "transparent"]
                 THEN els[i].style.fillOpacity10 = 0
                 ELSE /\ els[i].style.fillOpacity10 = 6
                      /\ els[i].style.fillColor = rows[i]["fill_color"]

\* C6 witness: a built ratio layer with a transparent record whose ratio is
\* the sentinel and whose excess is positive.
C6_Witness ==
    /\ HasLayer(RatioLabel)
    /\ \E i \in 1..Len(gdf_district_ratios.rows) :
          /\ gdf_district_ratios.rows[i]["fill_color"] = Str("transparent")
          /\ gdf_district_ratios.rows[i]["mining_ratio"] = Num(-8)
          /\ gdf_district_ratios.rows[i]["excess_mining_ha"] = Num(30)
          /\ LayerNamed(RatioLabel).children[i].style.fillOpacity10 = 0

\* text is the float k/8 written with two decimals: sign, integer part, point,
\* two digits, within half a hundredth of the value.
IsTwoDecimalsOf(text, k) ==
    \E h \in 0..(13 * Abs(k) + 1) :
        /\ Abs(100 * Abs(k) - 8 * h) <= 4
        /\ text = (IF k < 0 THEN "-" ELSE "") \o ToString(h \div 100) \o "."
                  \o (IF h % 100 < 10 THEN "0" ELSE "") \o ToString(h % 100)

\* C7: in the built ratio layer, each tooltip is the district name, ": ", and
\* "No licensed mining" when mining_ratio == -1, otherwise the ratio with two
\* decimals (a missing number prints as nan).
C7_RatioTooltip ==
    HasLayer(RatioLabel) =>
        LET rows == gdf_district_ratios.rows
            els == LayerNamed(RatioLabel).children
        IN \A i \in 1..Len(rows) :
              LET r == rows[i]["mining_ratio"]
                  head == rows[i]["district_name"].s \o ": "
                  text == SubSeq(els[i].tooltip, Len(head) + 1, Len(els[i].tooltip))
              IN /\ SubSeq(els[i].tooltip, 1, Len(head)) = head
                 /\ CASE r.t = "num" /\ r.n = -8 -> text = "No licensed mining"
                      [] r.t = "int" /\ r.i = -1 -> text = "No licensed mining"
                      [] r.t = "num" /\ r.n # -8 -> IsTwoDecimalsOf(text, r.n)
                      [] r.t = "nan" -> text = "nan"

\* C7 witness: a built ratio layer with a negative ratio other than -1, shown
\* with two decimals.
C7_Witness ==
    /\ HasLayer(RatioLabel)
    /\ \E i \in 1..Len(gdf_district_ratios.rows) :
          /\ gdf_district_ratios.rows[i]["mining_ratio"] = Num(-12)
          /\ LayerNamed(RatioLabel).children[i].tooltip = "Obuasi: -1.50"

\* One record in each of the five collections.
OneRecordEach ==
    /\ Len(gdf_licenses.rows) = 1
    /\ Len(gdf_regions.rows) = 1
    /\ Len(gdf_districts.rows) = 1
    /\ Len(gdf_detections.rows) = 1
    /\ Len(gdf_district_ratios.rows) = 1
Toggleable == {i \in 1..Len(m.layers) : m.layers[i].overlay /\ m.layers[i].control}

\* C8: the document returned for a dataset of one record per collection has
\* exactly six toggleable (overlay, listed in the control) layers, each with
\* its own name, the legend element, and one layer-control widget.
C8_MinimalDocument ==
    (pc = "returned" /\ OneRecordEach) =>
        /\ Cardinality(Toggleable) = 6
        /\ Cardinality({m.layers[i].name : i \in Toggleable}) = 6
        /\ \A i \in Toggleable : m.layers[i].name # ""
        /\ \E k \in 1..Len(m.html) : m.html[k].id = "mining-legend"
        /\ m.controls = <<"LayerControl">>

\* C8 witness: the document of the minimal dataset has been returned.
C8_Witness ==
    /\ pc = "returned"
    /\ OneRecordEach
    /\ satellite_bounds = <<>>
    /\ Len(m.layers) = 7

\* C9: the layers on the map are always the first so many of basemap,
\* satellite, regions, district-ratio, district-boundaries, detections,
\* licenses, in that order; the layer control is on the map only when all
\* seven are; and a returned document has all seven and the control.
C9_LayerOrder ==
    /\ Len(m.layers) <= Len(LayerOrder)
    /\ LayerNames = SubSeq(LayerOrder, 1, Len(m.layers))
    /\ m.controls # <<>> => LayerNames = LayerOrder
    /\ pc = "returned" => (LayerNames = LayerOrder /\ m.controls = <<"LayerControl">>)

\* C9 witness: a document returned although a collection is empty.
C9_Witness ==
    /\ pc = "returned"
    /\ gdf_regions.rows = <<>>
    /\ LayerNames = LayerOrder

\* C10: every layer on the map was created with show = False.
C10_AllHidden == \A i \in 1..Len(m.layers) : ~m.layers[i].show

\* C10 witness: a returned document with its seven layers, none shown.
C10_Witness ==
    /\ pc = "returned"
    /\ Len(m.layers) = 7
    /\ \A i \in 1..7 : m.layers[i].show = FALSE

\* The edges of the license geometries that are not null, one kind at a time
\* (1 minx, 2 miny, 3 maxx, 4 maxy), in eighths of a degree.
Located == {i \in 1..Len(gdf_licenses.rows) : gdf_licenses.rows[i]["geometry"].t = "geom"}
LicenseEdges(k) == {gdf_licenses.rows[i]["geometry"].bbox[k] : i \in Located}
IsLeast(x, S) == x \in S /\ \A y \in S : x <= y
IsGreatest(x, S) == x \in S /\ \A y \in S : x >= y

\* C11: whenever the licenses have an extent and the map exists, its first
\* view operation centres it on ((miny+maxy)/2, (minx+maxx)/2) of the license
\* bounding box; no other view operation happens before the end of the build;
\* and a returned document's last view operation, coming after that one, fits
\* the view to [[miny, minx], [maxy, maxx]] of the same box.
C11_CentreThenFit ==
    (m # NoMap /\ Located # {}) =>
        \E minx \in LicenseEdges(1), miny \in LicenseEdges(2),
           maxx \in LicenseEdges(3), maxy \in LicenseEdges(4) :
            /\ IsLeast(minx, LicenseEdges(1)) /\ IsLeast(miny, LicenseEdges(2))
            /\ IsGreatest(maxx, LicenseEdges(3)) /\ IsGreatest(maxy, LicenseEdges(4))
            /\ m.viewport[1].op = "setView"
            /\ 2 * m.viewport[1].center[1].n = miny + maxy
            /\ 2 * m.viewport[1].center[2].n = minx + maxx
            /\ IF pc = "returned"
               THEN /\ Len(m.viewport) = 2
                    /\ m.viewport[2].op = "fitBounds"
                    /\ m.viewport[2].bounds[1] = <<[t |-> "num", n |-> miny],
                                                   [t |-> "num", n |-> minx]>>
                    /\ m.viewport[2].bounds[2] = <<[t |-> "num", n |-> maxy],
                                                   [t |-> "num", n |-> maxx]>>
               ELSE Len(m.viewport) = 1

\* C11 witness: a document returned for two licenses lying apart, whose box
\* is neither license's own and whose midpoint has distinct coordinates.
C11_Witness ==
    /\ pc = "returned"
    /\ Len(gdf_licenses.rows) = 2
    /\ bounds = <<Num(-24), Num(40), Num(-10), Num(62)>>
    /\ m.viewport[1].center = <<Num(51), Num(-17)>>
    /\ m.viewport[2].bounds = <<<<Num(40), Num(-24)>>, <<Num(62), Num(-10)>>>>

\* The layers other than the basemap and the satellite layer are the ones
\* their collections give.
OtherLayersAsUsual ==
    /\ LayerNames = LayerOrder
    /\ m.layers[3] = RegionLayer(gdf_regions)
    /\ m.layers[4] = RatioLayer(gdf_district_ratios)
    /\ m.layers[5] = DistrictLayer(gdf_districts)
    /\ m.layers[6] = DetectionLayer(gdf_detections)
    /\ m.layers[7] = LicenseLayer(gdf_licenses)
    /\ m.controls = <<"LayerControl">>

\* C12: without a bounds file the process is up with an empty satellite_bounds,
\* the satellite loop adds no overlay whatever image files exist, the satellite
\* layer is attached empty, and the build goes on to return a document with
\* every other layer; with a bounds file satellite_bounds has exactly the
\* file's image ids, in its order, each with the file's four projected edges
\* and the transforms of its (west, south) and (east, north) corners.
C12_BoundsFile ==
    IF ~satellite_bounds_file.exists
    THEN /\ satellite_bounds = <<>>
         /\ satellite_grp = <<>>
         /\ images_added = 0
         /\ HasLayer("Satellite Images (High-Res)") =>
                LayerNamed("Satellite Images (High-Res)").children = <<>>
         /\ pc # "raised"
         /\ pc = "returned" => OtherLayersAsUsual
    ELSE LET entries == satellite_bounds_file.entries
         IN /\ Len(satellite_bounds) = Len(entries)
            /\ \A i \in 1..Len(entries) :
                  LET e == entries[i]
                      c == satellite_bounds[i]
                  IN /\ c.image_name = e.image_name
                     /\ DOMAIN c = {"image_name", "north", "south", "east", "west",
                                    "north_utm", "south_utm", "east_utm", "west_utm"}
                     /\ <<c.north_utm, c.south_utm, c.east_utm, c.west_utm>>
                           = <<e.north, e.south, e.east, e.west>>
                     /\ <<c.west, c.south>> = Transform(e.west, e.south)
                     /\ <<c.east, c.north>> = Transform(e.east, e.north)

\* C12 witness: no bounds file although image files are on disk, and a
\* document returned with an empty satellite layer and its other layers.
C12_Witness ==
    /\ ~satellite_bounds_file.exists
    /\ files # {}
    /\ pc = "returned"
    /\ LayerNamed("Satellite Images (High-Res)").children = <<>>
    /\ Len(m.layers) = 7
    /\ Len(LayerNamed("Licensed sites").children) = 1

\* What is loaded once at startup and shared by every request.
processWide ==
    <<gdf_licenses, gdf_regions, gdf_districts, gdf_detections, gdf_district_ratios,
      satellite_bounds, bounds, center_lat, center_lon>>
\* The iterations of the current request's satellite loop that added an overlay.
AddedNow ==
    {j \in 1..Len(sat_log) :
        sat_log[j] \in {<<"Adding image">>, <<"Adding image", "Error adding image">>}}

\* C13: no step of any map() request changes a dataset, the satellite bounds
\* mapping or the license bounds and centre, which stay what startup derived
\* from the files; the satellite group holds only the overlays the current
\* request added; and a returned document is the one its inputs give: the
\* basemap, this request's satellite group, the five layers of the five
\* collections, the view centred on the shared centre then fitted to the
\* shared bounds.
C13_NoSharedMutation ==
    /\ [][processWide' = processWide]_vars
    /\ [](/\ satellite_bounds = LoadBounds(satellite_bounds_file)
          /\ bounds = TotalBounds(gdf_licenses)
          /\ <<center_lat, center_lon>> = Center(bounds)
          /\ Len(satellite_grp) = Cardinality(AddedNow)
          /\ pc = "returned" =>
                /\ Len(sat_log) = Len(satellite_bounds)
                /\ m.layers[1] = Basemap
                /\ m.layers[2] = SatelliteLayer(satellite_grp)
                /\ OtherLayersAsUsual
                /\ m.viewport = FitBounds(Map(<<center_lat, center_lon>>, 8), bounds).viewport)

\* C13 witness: a request has returned a document with an overlay in its
\* satellite layer, and the shared state is still what startup derived.
C13_Witness ==
    /\ pc = "returned"
    /\ Len(satellite_bounds) = 2
    /\ Len(LayerNamed("Satellite Images (High-Res)").children) = 1
    /\ satellite_bounds = LoadBounds(satellite_bounds_file)
    /\ bounds = TotalBounds(gdf_licenses)

====
